---- MODULE Spec2Model ----
(***************************************************************************)
(* A model of erkl/relay: the per-connection HTTP loop (serveHTTP), the    *)
(* CONNECT tunnel procedure (connect), the loop over TLS (serveHTTPS),     *)
(* the request/response helpers and the header scrubber.                   *)
(*                                                                         *)
(* Header names and values are kept at the level of lexemes: a value is a  *)
(* sequence of lexemes (words, "," separators, " " blanks, decimal         *)
(* digits); a request URI is a sequence of lexemes as well.                *)
(***************************************************************************)
EXTENDS Integers, Sequences, FiniteSets, TLC

\* ------------------------------------------------------------------ bounds
\* Requests read on one connection before the client stops sending.
MaxRequests == 2
\* Bytes of a request body.
MaxBody == 2
\* Fields of a header handed to the scrubber on its own.
MaxFields == 2

\* ------------------------------------------------------- sequence helpers
RECURSIVE Flatten(_)
Flatten(ss) == IF ss = <<>> THEN <<>> ELSE Head(ss) \o Flatten(Tail(ss))

\* ------------------------------------------------------------ header names
\* Case folding of the header names and tokens the model uses.
Lower(n) ==
    CASE n = "Connection" -> "connection"
      [] n = "CONNECTION" -> "connection"
      [] n = "Keep-Alive" -> "keep-alive"
      [] n = "Public" -> "public"
      [] n = "Proxy-Authenticate" -> "proxy-authenticate"
      [] n = "Proxy-Authorization" -> "proxy-authorization"
      [] n = "TE" -> "te"
      [] n = "Trailers" -> "trailers"
      [] n = "Transfer-Encoding" -> "transfer-encoding"
      [] n = "Upgrade" -> "upgrade"
      [] n = "Proxy-Connection" -> "proxy-connection"
      [] n = "Content-Length" -> "content-length"
      [] n = "Content-Type" -> "content-type"
      [] n = "X-Custom" -> "x-custom"
      [] n = "X-CUSTOM" -> "x-custom"
      [] n = "Host" -> "host"
      [] n = "Close" -> "close"
      [] OTHER -> n

LowerSeq(t) == [i \in DOMAIN t |-> Lower(t[i])]

\* Field.Is: case-insensitive comparison of a field's name with a name.
FieldIs(f, name) == Lower(f.name) = Lower(name)

\* The same comparison with a name given as the lexemes of a token.
FieldIsToken(f, tok) == <<Lower(f.name)>> = LowerSeq(tok)

Field(name, value) == [name |-> name, value |-> value]

\* Fields.Add: appends a field.
FieldsAdd(fs, name, value) == Append(fs, Field(name, value))

FieldsHas(fs, name) == \E i \in DOMAIN fs : FieldIs(fs[i], name)

FirstIndex(fs, name) == CHOOSE i \in DOMAIN fs :
    FieldIs(fs[i], name) /\ \A j \in 1..(i - 1) : ~FieldIs(fs[j], name)

\* Fields.Set: the first field of that name takes the value and the later
\* ones are dropped; without such a field, one is appended.
FieldsSet(fs, name, value) ==
    IF FieldsHas(fs, name)
    THEN LET k == FirstIndex(fs, name)
             keep(i) == i <= k \/ ~FieldIs(fs[i], name)
             idx == SelectSeq([i \in DOMAIN fs |-> i], keep)
         IN [j \in DOMAIN idx |->
                IF idx[j] = k THEN Field(fs[k].name, value) ELSE fs[idx[j]]]
    ELSE FieldsAdd(fs, name, value)

\* ------------------------------------------------------------ field values
RECURSIVE SplitAt(_, _, _)
\* The pieces of a value between the separators sep, cur being the piece
\* under construction.
SplitAt(v, sep, cur) ==
    IF v = <<>> THEN <<cur>>
    ELSE IF Head(v) = sep THEN <<cur>> \o SplitAt(Tail(v), sep, <<>>)
    ELSE SplitAt(Tail(v), sep, Append(cur, Head(v)))

RECURSIVE TrimLeft(_)
TrimLeft(t) == IF t # <<>> /\ Head(t) = " " THEN TrimLeft(Tail(t)) ELSE t

RECURSIVE TrimRight(_)
TrimRight(t) ==
    IF t # <<>> /\ t[Len(t)] = " " THEN TrimRight(SubSeq(t, 1, Len(t) - 1)) ELSE t

Trim(t) == TrimRight(TrimLeft(t))

\* Fields.Split: the trimmed, non-empty pieces of the values of every field
\* of that name, in order.
FieldsSplit(fs, name, sep) ==
    LET named == SelectSeq(fs, LAMBDA f : FieldIs(f, name))
        pieces == Flatten([i \in DOMAIN named |-> SplitAt(named[i].value, sep, <<>>)])
        trimmed == [i \in DOMAIN pieces |-> Trim(pieces[i])]
    IN SelectSeq(trimmed, LAMBDA t : t # <<>>)

HasToken(toks, word) == \E i \in DOMAIN toks : LowerSeq(toks[i]) = <<Lower(word)>>

\* -------------------------------------------------------- decimal numbers
Digits == <<"0", "1", "2", "3", "4", "5", "6", "7", "8", "9">>

IsDigit(c) == \E i \in DOMAIN Digits : Digits[i] = c

DigitValue(c) == (CHOOSE i \in DOMAIN Digits : Digits[i] = c) - 1

RECURSIVE FormatNat(_)
FormatNat(n) ==
    IF n < 10 THEN <<Digits[n + 1]>> ELSE Append(FormatNat(n \div 10), Digits[(n % 10) + 1])

\* strconv.FormatInt(n, 10) and strconv.Itoa(n), as digit lexemes.
FormatInt(n) == IF n < 0 THEN <<"-">> \o FormatNat(-n) ELSE FormatNat(n)

RECURSIVE ParseNat(_, _)
ParseNat(v, acc) ==
    IF v = <<>> THEN acc ELSE ParseNat(Tail(v), acc * 10 + DigitValue(Head(v)))

IsNumber(v) == v # <<>> /\ \A i \in DOMAIN v : IsDigit(v[i])

\* ------------------------------------------------------------ body framing
\* heat.BodySize results: a size (>= 0, or Chunked < 0) or an error.
Chunked == -1

SizeOK(n) == [err |-> FALSE, size |-> n]
SizeErr == [err |-> TRUE, size |-> 0]

\* The framing announced by a field list: chunked with a Transfer-Encoding,
\* else the Content-Length (an error when it is no number), else none.
FramingOf(fs, none) ==
    IF FieldsHas(fs, "Transfer-Encoding") THEN SizeOK(Chunked)
    ELSE IF FieldsHas(fs, "Content-Length")
         THEN LET v == Trim(fs[FirstIndex(fs, "Content-Length")].value)
              IN IF IsNumber(v) THEN SizeOK(ParseNat(v, 0)) ELSE SizeErr
         ELSE SizeOK(none)

\* heat.RequestBodySize: a request without framing fields has no body.
RequestBodySize(req) == FramingOf(req.fields, 0)

\* heat.ResponseBodySize: no body in answer to HEAD or with a 1xx, 204 or 304
\* status; a response without framing fields runs until the stream ends.
ResponseBodySize(resp, method) ==
    IF method = "HEAD" \/ resp.status \div 100 = 1 \/ resp.status \in {204, 304}
    THEN SizeOK(0)
    ELSE FramingOf(resp.fields, Chunked)

\* heat.Closing: an HTTP/1.0 peer closes unless it asks for keep-alive, a
\* later one closes when it says so.
Closing(major, minor, fields) ==
    LET toks == FieldsSplit(fields, "Connection", ",")
    IN IF major = 1 /\ minor = 0 THEN ~HasToken(toks, "keep-alive")
       ELSE HasToken(toks, "close")

\* ---------------------------------------------------------- header scrubber
\* A blacklist that forgets Content-Length.
blacklistShort == <<"Connection", "Keep-Alive", "Public", "Proxy-Authenticate",
                    "Proxy-Authorization", "TE", "Trailers", "Transfer-Encoding",
                    "Upgrade", "Proxy-Connection">>

blacklist == <<"Connection", "Keep-Alive", "Public", "Proxy-Authenticate",
               "Proxy-Authorization", "TE", "Trailers", "Transfer-Encoding",
               "Upgrade", "Proxy-Connection", "Content-Length">>

\* A filter that forgets the connection-tokens.
scrubKeepNoTokens(f, tokens) ==
    \A i \in DOMAIN blacklist : ~FieldIs(f, blacklist[i])

\* The filter of scrubHeaderFields: false for a field named in the blacklist
\* or by a connection-token.
scrubKeep(f, tokens) ==
    /\ \A i \in DOMAIN blacklist : ~FieldIs(f, blacklist[i])
    /\ \A i \in DOMAIN tokens : ~FieldIsToken(f, tokens[i])

\* A scrubber that always announces a chunked body.
scrubHeaderFieldsChunked(fields, size) ==
    LET tokens == FieldsSplit(fields, "Connection", ",")
        kept == SelectSeq(fields, LAMBDA f : scrubKeep(f, tokens))
    IN FieldsAdd(kept, "Transfer-Encoding", <<"chunked">>)

\* scrubHeaderFields: drops the blacklisted fields and those the Connection
\* fields name, then announces the body size.
scrubHeaderFields(fields, size) ==
    LET tokens == FieldsSplit(fields, "Connection", ",")
        kept == SelectSeq(fields, LAMBDA f : scrubKeep(f, tokens))
    IN IF size >= 0
       THEN FieldsAdd(kept, "Content-Length", FormatInt(size))
       ELSE FieldsAdd(kept, "Transfer-Encoding", <<"chunked">>)


\* scrubRequest: forces HTTP/1.1 and scrubs the fields; fails when the body
\* size cannot be worked out.
scrubRequest(req) ==
    LET r11 == [req EXCEPT !.major = 1, !.minor = 1]
        sz == RequestBodySize(r11)
    IN IF sz.err THEN [err |-> TRUE, req |-> r11]
       ELSE [err |-> FALSE,
             req |-> [r11 EXCEPT !.fields = scrubHeaderFields(r11.fields, sz.size)]]

\* scrubResponse: the same for a response, given the request's method.
scrubResponse(resp, method) ==
    LET r11 == [resp EXCEPT !.major = 1, !.minor = 1]
        sz == ResponseBodySize(r11, method)
    IN IF sz.err THEN [err |-> TRUE, resp |-> r11]
       ELSE [err |-> FALSE,
             resp |-> [r11 EXCEPT !.fields = scrubHeaderFields(r11.fields, sz.size)]]

\* -------------------------------------------------------- status responses
\* len(body) of the status pages, by message.
MsgLen(msg) ==
    CASE msg = "Malformed HTTP request header." -> 30
      [] msg = "Unsupported HTTP version number." -> 32
      [] msg = "Invalid URI in request." -> 23
      [] msg = "Request URI must be absolute." -> 29
      [] msg = "Could not scrub request." -> 24
      [] msg = "Could not scrub response." -> 25
      [] msg = "Round-trip to upstream failed: %s." -> 35
      [] msg = "Unknown error: %s." -> 19
      [] msg = "Can't serve CONNECT requests without Proxy.Authority." -> 53
      [] msg = "Invalid CONNECT address: %s." -> 31
      [] msg = "Error when signing SSL certificate: %s." -> 42
      [] msg = "Internal error: %s." -> 20

\* statusResponse: status, Connection: close, Content-Type, Content-Length
\* and the message as the body.
statusResponse(status, msg) ==
    [status |-> status, major |-> 1, minor |-> 1,
     fields |-> FieldsSet(
                    FieldsSet(
                        FieldsSet(<<>>, "Connection", <<"close">>),
                        "Content-Type", <<"text/plain;", " ", "charset=utf-8">>),
                    "Content-Length", FormatInt(MsgLen(msg))),
     origin |-> "status", msg |-> msg]

\* ------------------------------------------------------------ request URIs
SchemeLex == {"http", "https"}
PathLex == {"/", "/a", "/relative"}

\* url.ParseRequestURI: an absolute URI (scheme "://" host [path]), "*" or a
\* path; anything else is an error.
ParseRequestURI(uri) ==
    IF uri = <<>> THEN [err |-> TRUE]
    ELSE IF uri = <<"*">>
    THEN [err |-> FALSE, scheme |-> "", host |-> "", path |-> <<"*">>]
    ELSE IF Head(uri) \in PathLex /\ Len(uri) = 1
    THEN [err |-> FALSE, scheme |-> "", host |-> "", path |-> uri]
    ELSE IF Len(uri) >= 3 /\ uri[1] \in SchemeLex /\ uri[2] = "://"
            /\ uri[3] \notin PathLex
            /\ \A i \in 4..Len(uri) : uri[i] \in PathLex
            /\ Len(uri) <= 4
    THEN [err |-> FALSE, scheme |-> uri[1], host |-> uri[3],
          path |-> SubSeq(uri, 4, Len(uri))]
    ELSE [err |-> TRUE]

\* URL.IsAbs
IsAbs(u) == u.scheme # ""

\* URL.RequestURI: the path (with the query), "/" for an empty one.
RequestURI(u) == IF u.path = <<>> THEN <<"/">> ELSE u.path

RECURSIVE LastIndexOf(_, _)
\* The last place of c in s, 0 when there is none.
LastIndexOf(s, c) ==
    IF s = <<>> THEN 0
    ELSE IF s[Len(s)] = c THEN Len(s) ELSE LastIndexOf(SubSeq(s, 1, Len(s) - 1), c)

RECURSIVE IndexOf(_, _, _)
\* The first place of c in s from place i on, 0 when there is none.
IndexOf(s, c, i) ==
    IF i > Len(s) THEN 0 ELSE IF s[i] = c THEN i ELSE IndexOf(s, c, i + 1)

Contains(s, c) == IndexOf(s, c, 1) # 0

\* net.SplitHostPort: host and port around the last colon, the host possibly
\* in brackets; an error without a port, with too many colons or with stray
\* brackets.
SplitHostPort(hostport) ==
    LET i == LastIndexOf(hostport, ":")
        bad == [err |-> TRUE, host |-> <<>>, port |-> <<>>]
        n == Len(hostport)
    IN IF i = 0 THEN bad
       ELSE IF hostport[1] = "["
       THEN LET end == IndexOf(hostport, "]", 1)
            IN IF end = 0 \/ end + 1 # i THEN bad
               ELSE IF Contains(SubSeq(hostport, 2, n), "[")
                       \/ Contains(SubSeq(hostport, end + 1, n), "]") THEN bad
               ELSE [err |-> FALSE, host |-> SubSeq(hostport, 2, end - 1),
                     port |-> SubSeq(hostport, i + 1, n)]
       ELSE LET host == SubSeq(hostport, 1, i - 1)
            IN IF Contains(host, ":") THEN bad
               ELSE IF Contains(hostport, "[") \/ Contains(hostport, "]") THEN bad
               ELSE [err |-> FALSE, host |-> host, port |-> SubSeq(hostport, i + 1, n)]

\* ------------------------------------------------------------- body reader
\* eof records that the wrapped stream has returned EOF (it is not a field of
\* bodyReader).
NoBody == [open |-> FALSE, e |-> "nil", left |-> 0, eof |-> FALSE]

\* &bodyReader{r: r}: nothing stored, size bytes left in the wrapped stream.
NewBody(size) == [open |-> TRUE, e |-> "nil", left |-> size, eof |-> FALSE]

\* What one Read of the wrapped stream may return with `left` bytes to come:
\* some bytes, the last bytes with or without EOF, EOF alone, or any number
\* of bytes together with a connection error.
UnderlyingReads(left) ==
    { [n |-> k, err |-> "nil"] : k \in 1..left }
    \cup { [n |-> left, err |-> "EOF"] }
    \cup { [n |-> k, err |-> "ErrIO"] : k \in 0..left }

\* A Read that does not store the error it delays.
bodyReaderReadNoStore(br, u) ==
    IF br.e # "nil" THEN [br |-> br, n |-> 0, err |-> br.e, called |-> FALSE]
    ELSE [br |-> [br EXCEPT !.e = IF u.n > 0 THEN "nil" ELSE u.err,
                          !.left = br.left - u.n, !.eof = (u.err = "EOF")],
          n |-> u.n,
          err |-> IF u.err # "nil" /\ u.n > 0 THEN "nil" ELSE u.err,
          called |-> TRUE]

\* bodyReader.Read, u being what the wrapped stream returns if it is read: a
\* stored error is returned without reading; an error that comes with data
\* is stored and delayed.
bodyReaderRead(br, u) ==
    IF br.e # "nil" THEN [br |-> br, n |-> 0, err |-> br.e, called |-> FALSE]
    ELSE [br |-> [br EXCEPT !.e = u.err, !.left = br.left - u.n,
                          !.eof = (u.err = "EOF")],
          n |-> u.n,
          err |-> IF u.err # "nil" /\ u.n > 0 THEN "nil" ELSE u.err,
          called |-> TRUE]

\* A Close that marks the reader whatever it has stored.
bodyReaderCloseAlways(br) == [br EXCEPT !.e = "errReadAfterClose"]

\* bodyReader.Close: a stored error becomes errReadAfterClose.
bodyReaderClose(br) ==
    IF br.e # "nil" THEN [br EXCEPT !.e = "errReadAfterClose"] ELSE br

\* bodyReader.LastError: errReadAfterClose reads as nil.
LastError(br) == IF br.e = "errReadAfterClose" THEN "nil" ELSE br.e


\* ------------------------------------------------------------------- state
VARIABLES
    authority,    \* Proxy.Authority: "nil", "empty" (no certificate), "badDER", "valid"
    loop,         \* the procedure that runs: "serveHTTP", "connect", "serveHTTPS"
    pc,           \* its position
    nread,        \* requests the running loop has read
    reads,        \* what the reads of the running loop returned, in order
    req,          \* the current request (NoReq: nil)
    body,         \* the current request's bodyReader (NoBody: nil)
    closing,      \* the loop's closing flag
    isKeepAlive,  \* forward's isKeepAlive
    resp,         \* the response being written (NoResp: none)
    ret,          \* TRUE when the caller returns writeResponse's result as its own
    addr,         \* serveHTTPS's addr
    cert,         \* the certificate connect forged (NoCert: none)
    peek,         \* the buffered bytes connect holds ("none" before Peek)
    out,          \* what was written to the client, and the handshake, in order
    up,           \* the requests handed to RoundTrip, as they were at the call
    dec,          \* the keep-alive decisions taken, in order
    result,       \* "running", or how the entry point ended: "nil", "err", "panic"
    scrub,        \* the scrubber run on its own (ScrubIdle: not run)
    pfx,          \* a prefixed connection read on its own (PfxIdle: none)
    calls,        \* the calls made on a bodyReader driven on its own, in order
    forged        \* what the calls of forge made on their own returned, in order

connVars == <<authority, loop, pc, nread, reads, req, body, closing, isKeepAlive, resp, ret,
              addr, cert, peek, out, up, dec, result>>
vars == <<authority, loop, pc, nread, reads, req, body, closing, isKeepAlive, resp, ret,
          addr, cert, peek, out, up, dec, result, scrub, pfx, calls, forged>>

\* The variables of the units run on their own.
unitVars == <<scrub, pfx, calls, forged>>

NoReq == [method |-> "", uri |-> <<>>, major |-> 0, minor |-> 0, fields |-> <<>>,
          scheme |-> "", remote |-> <<>>]
NoResp == [status |-> 0, major |-> 0, minor |-> 0, fields |-> <<>>,
           origin |-> "none", msg |-> ""]
NoCert == [host |-> <<>>, serial |-> <<>>, dns |-> <<>>, ip |-> <<>>, chain |-> <<>>]
ScrubIdle == [fields |-> <<>>, size |-> 0, runs |-> <<>>]
PfxIdle == [p |-> <<>>, q |-> <<>>, prefix |-> <<>>, conn |-> <<>>, got |-> <<>>,
            early |-> FALSE, short |-> FALSE]

\* ------------------------------------------------------------------ inputs
Request(method, uri, major, minor, fields) ==
    [method |-> method, uri |-> uri, major |-> major, minor |-> minor,
     fields |-> fields, scheme |-> "", remote |-> <<>>]

AbsURI == <<"http", "://", "x.example", "/a">>
HostField == Field("Host", <<"x.example">>)

\* The request headers a client sends.
Requests == {
    Request("GET", AbsURI, 1, 1, <<HostField>>),
    Request("HEAD", AbsURI, 1, 1, <<HostField>>),
    Request("GET", AbsURI, 1, 0, <<HostField>>),
    Request("GET", AbsURI, 1, 1,
            <<HostField, Field("Connection", <<"X-Custom", ",", " ", "close">>),
              Field("X-Custom", <<"v">>)>>),
    Request("GET", <<"/relative">>, 1, 1, <<HostField>>),
    Request("GET", <<"x.example">>, 1, 0, <<HostField>>),
    Request("POST", AbsURI, 1, 1,
            <<HostField, Field("content-length", FormatInt(MaxBody))>>),
    Request("POST", <<"/relative">>, 1, 1,
            <<HostField, Field("Content-Length", <<"1">>)>>),
    Request("POST", AbsURI, 1, 1, <<Field("Content-Length", <<"x">>)>>),
    Request("CONNECT", <<"example.com", ":", "443">>, 1, 1, <<>>) }

\* The CONNECT requests connect is called with.
ConnectRequests == {
    Request("CONNECT", u, 1, 1, <<>>) :
        u \in { <<"example.com", ":", "443">>, <<"example.com", ":", "8080">>,
                <<"example.com">>, <<"example.com", ":">>,
                <<"example.com", ":", "443", ":", "443">>,
                <<"[", "::1", "]", ":", "443">>, <<"[", "::1", ":", "443">> } }

\* What heat.ReadRequestHeader returns: an error or a request header.
ReadInputs ==
    { [err |-> e, req |-> NoReq] :
        e \in {"ErrRequestHeader", "ErrRequestVersion", "EOF", "ErrIO"} }
    \cup { [err |-> "nil", req |-> r] : r \in Requests }

Upstream(status, fields) ==
    [status |-> status, major |-> 1, minor |-> 1, fields |-> fields,
     origin |-> "upstream", msg |-> ""]

\* What the round-trip callable returns: an error or a response.
RoundTripOutcomes ==
    { [err |-> TRUE, resp |-> NoResp] }
    \cup { [err |-> FALSE, resp |-> r] : r \in {
            Upstream(200, <<Field("Content-Length", <<"0">>)>>),
            Upstream(200, <<Field("Connection", <<"close">>),
                            Field("Content-Length", <<"2">>)>>),
            [Upstream(200, <<Field("Transfer-Encoding", <<"chunked">>),
                             Field("Connection", <<"keep-alive">>)>>)
                EXCEPT !.minor = 0],
            Upstream(200, <<Field("Content-Length", <<"x">>)>>) } }

\* What rw.Peek(0) returns: an error or the buffered bytes.
PeekOutcomes == {"err", "empty", "hello"}

\* ------------------------------------------------------------- readRequest
\* readRequest, in being what heat.ReadRequestHeader returns: on an error
\* the request is nil; a body reader is attached when the size is not 0.
readRequest(in) ==
    IF in.err # "nil" THEN [err |-> in.err, req |-> NoReq, body |-> NoBody]
    ELSE LET sz == RequestBodySize(in.req)
         IN IF sz.err THEN [err |-> "ErrBodySize", req |-> NoReq, body |-> NoBody]
            ELSE [err |-> "nil", req |-> in.req,
                  body |-> IF sz.size # 0
                           THEN NewBody(IF sz.size < 0 THEN MaxBody ELSE sz.size)
                           ELSE NoBody]

\* ------------------------------------------------------------- Proxy.proxy
\* Proxy.proxy up to the call of RoundTrip: a 400 or 500 status response
\* (call FALSE), or the request as it is handed to RoundTrip (call TRUE).
proxyBegin(r) ==
    LET u == ParseRequestURI(r.uri)
    IN IF u.err
       THEN [call |-> FALSE, req |-> r,
             resp |-> statusResponse(400, "Invalid URI in request.")]
       ELSE IF ~IsAbs(u)
       THEN [call |-> FALSE, req |-> r,
             resp |-> statusResponse(400, "Request URI must be absolute.")]
       ELSE LET s == scrubRequest(r)
            IN IF s.err
               THEN [call |-> FALSE, req |-> s.req,
                     resp |-> statusResponse(500, "Could not scrub request.")]
               ELSE [call |-> TRUE,
                     req |-> [s.req EXCEPT !.uri = RequestURI(u), !.scheme = u.scheme,
                                           !.remote = <<u.host>>],
                     resp |-> NoResp]

\* Proxy.proxy from RoundTrip's return on: its response, scrubbed, or a 500
\* status response. The error returned is always nil.
proxyEnd(r, o) ==
    IF o.err THEN statusResponse(500, "Round-trip to upstream failed: %s.")
    ELSE LET s == scrubResponse(o.resp, r.method)
         IN IF s.err THEN statusResponse(500, "Could not scrub response.")
            ELSE s.resp

\* ----------------------------------------------------------- Proxy.forward
\* Proxy.forward up to the call of RoundTrip.
forwardBegin(r) ==
    [isKeepAlive |-> ~Closing(r.major, r.minor, r.fields),
     req |-> [r EXCEPT !.fields = FieldsSet(@, "Connection", <<"keep-alive">>)]]

\* Proxy.forward from RoundTrip's return on: an error, or the response with
\* its Connection field set.
forwardEnd(keep, o) ==
    IF o.err THEN [err |-> TRUE, resp |-> NoResp]
    ELSE [err |-> FALSE,
          resp |-> [o.resp EXCEPT !.fields =
                       FieldsSet(@, "Connection",
                                 IF keep THEN <<"keep-alive">> ELSE <<"close">>)]]

\* ----------------------------------------------------- keep-alive decision
\* A condition that forgets the request body.
keepAliveNoBody(cl, br) == ~cl

\* The condition under which the loops keep the connection open.
keepAlive(cl, br) == ~cl /\ (~br.open \/ LastError(br) = "EOF")

\* A decision that leaves the response's Connection fields as they came.
decideKeepFields(cl, br, rsp) ==
    [closing |-> ~keepAlive(cl, br), resp |-> rsp]

\* The keep-alive decision of serveHTTP and serveHTTPS: the closing flag and
\* the response with its Connection field set.
decide(cl, br, rsp) ==
    IF keepAlive(cl, br)
    THEN [closing |-> cl,
          resp |-> [rsp EXCEPT !.fields = FieldsSet(@, "Connection", <<"keep-alive">>)]]
    ELSE [closing |-> TRUE,
          resp |-> [rsp EXCEPT !.fields = FieldsSet(@, "Connection", <<"close">>)]]

NoOutcome == [err |-> FALSE, resp |-> NoResp]

\* The record of a decision: o is what RoundTrip returned (NoOutcome when it
\* was not called).
Decision(k, cl, br, rsp, o) ==
    [k |-> k, clientClosing |-> cl, hasBody |-> br.open, e |-> br.e,
     left |-> br.left, eof |-> br.eof, lastError |-> LastError(br), rt |-> o,
     origin |-> rsp.origin,
     status |-> rsp.status, closing |-> decide(cl, br, rsp).closing]

\* ---------------------------------------------------------- Proxy.forge
IPLex == {"::1", "127.0.0.1"}

\* Proxy.forge: fails when the authority's certificate does not parse; else
\* a leaf for the host (serial and key derived from the host alone) chained
\* under the authority.
forge(host) ==
    IF authority = "badDER" THEN [err |-> TRUE, cert |-> NoCert]
    ELSE [err |-> FALSE,
          cert |-> [host |-> host, serial |-> <<"sha256">> \o host,
                    dns |-> IF Len(host) = 1 /\ host[1] \in IPLex THEN <<>> ELSE <<host>>,
                    ip |-> IF Len(host) = 1 /\ host[1] \in IPLex THEN <<host>> ELSE <<>>,
                    chain |-> <<"leaf", "authority">>]]


\* ------------------------------------------------------------------ events
Side == IF loop = "serveHTTPS" THEN "tls" ELSE "plain"

Event(ev, rsp) ==
    [ev |-> ev, side |-> Side, k |-> nread, method |-> req.method, resp |-> rsp]

\* The entry point returns r (or panics).
Finish(r) ==
    /\ pc' = "done"
    /\ result' = r

\* The loop is back at its top: the locals of the last round are dead.
BackToRead ==
    /\ pc' = "read"
    /\ req' = NoReq
    /\ body' = NoBody
    /\ resp' = NoResp
    /\ closing' = FALSE
    /\ isKeepAlive' = FALSE
    /\ UNCHANGED result

\* The loop took its keep-alive decision and calls writeResponse.
Decide(k, cl, br, rsp, o) ==
    /\ closing' = decide(cl, br, rsp).closing
    /\ resp' = decide(cl, br, rsp).resp
    /\ dec' = Append(dec, Decision(k, cl, br, rsp, o))
    /\ ret' = FALSE
    /\ pc' = "writeHeader"

\* A status response is written and writeResponse's result returned.
ReturnStatus(rsp) ==
    /\ resp' = rsp
    /\ ret' = TRUE
    /\ pc' = "writeHeader"

\* ---------------------------------------------------------------- initial
Init ==
    /\ \/ /\ loop = "serveHTTP"
          /\ authority \in {"nil", "valid"}
          /\ pc = "read"
          /\ req = NoReq
       \/ /\ loop = "connect"
          /\ authority \in {"nil", "empty", "badDER", "valid"}
          /\ pc = "connect"
          /\ req \in ConnectRequests
    /\ nread = 0
    /\ reads = <<>>
    /\ body = NoBody
    /\ closing = FALSE
    /\ isKeepAlive = FALSE
    /\ resp = NoResp
    /\ ret = FALSE
    /\ addr = <<>>
    /\ cert = NoCert
    /\ peek = "none"
    /\ out = <<>>
    /\ up = <<>>
    /\ dec = <<>>
    /\ result = "running"
    /\ scrub = ScrubIdle
    /\ pfx = PfxIdle
    /\ calls = <<>>
    /\ forged = <<>>

\* --------------------------------------------------------------- serveHTTP
\* One round of serveHTTP from the read of the next request to the call of
\* RoundTrip or, without such a call, to the call of writeResponse.
serveHTTP_read ==
    /\ loop = "serveHTTP" /\ pc = "read"
    /\ \E in \in ReadInputs :
        /\ in.err = "nil" => nread < MaxRequests
        /\ reads' = Append(reads, in)
        /\ LET rr == readRequest(in)
           IN IF rr.err \in {"ErrRequestHeader", "ErrRequestVersion"}
              THEN \* req is nil: evaluating req.Method panics
                   /\ Finish("panic")
                   /\ UNCHANGED <<nread, req, body, closing, isKeepAlive, resp, ret,
                                  up, dec>>
              ELSE IF rr.err = "EOF"
              THEN /\ Finish("nil")
                   /\ UNCHANGED <<nread, req, body, closing, isKeepAlive, resp, ret,
                                  up, dec>>
              ELSE IF rr.err # "nil"
              THEN /\ Finish("err")
                   /\ UNCHANGED <<nread, req, body, closing, isKeepAlive, resp, ret,
                                  up, dec>>
              ELSE IF rr.req.method = "CONNECT"
              THEN /\ Finish("nil")
                   /\ nread' = nread + 1
                   /\ req' = rr.req
                   /\ body' = rr.body
                   /\ UNCHANGED <<closing, isKeepAlive, resp, ret, up, dec>>
              ELSE LET cl == Closing(rr.req.major, rr.req.minor, rr.req.fields)
                       pr == proxyBegin(rr.req)
                   IN /\ nread' = nread + 1
                      /\ req' = pr.req
                      /\ body' = rr.body
                      /\ UNCHANGED <<isKeepAlive, result>>
                      /\ IF pr.call
                         THEN /\ pc' = "roundtrip"
                              /\ closing' = cl
                              /\ up' = Append(up, pr.req)
                              /\ UNCHANGED <<resp, ret, dec>>
                         ELSE /\ Decide(nread + 1, cl, rr.body, pr.resp, NoOutcome)
                              /\ UNCHANGED up
    /\ UNCHANGED <<authority, loop, addr, cert, peek, out, unitVars>>

\* RoundTrip returns to Proxy.proxy, which returns to serveHTTP; the loop
\* takes its keep-alive decision and calls writeResponse.
proxy_return ==
    /\ loop = "serveHTTP" /\ pc = "roundtrip"
    /\ \E o \in RoundTripOutcomes :
        Decide(nread, closing, body, proxyEnd(req, o), o)
    /\ UNCHANGED <<authority, loop, nread, reads, req, body, isKeepAlive, addr, cert, peek,
                   out, up, result, unitVars>>

\* -------------------------------------------------------------- serveHTTPS
\* One round of serveHTTPS from the read of the next request to the call of
\* RoundTrip in Proxy.forward.
serveHTTPS_read ==
    /\ loop = "serveHTTPS" /\ pc = "read"
    /\ \E in \in ReadInputs :
        /\ in.err = "nil" => nread < MaxRequests
        /\ reads' = Append(reads, in)
        /\ LET rr == readRequest(in)
           IN IF rr.err \in {"ErrRequestHeader", "ErrRequestVersion"}
              THEN \* req is nil: evaluating req.Method panics
                   /\ Finish("panic")
                   /\ UNCHANGED <<nread, req, body, closing, isKeepAlive, up>>
              ELSE IF rr.err = "EOF"
              THEN /\ Finish("nil")
                   /\ UNCHANGED <<nread, req, body, closing, isKeepAlive, up>>
              ELSE IF rr.err # "nil"
              THEN /\ Finish("err")
                   /\ UNCHANGED <<nread, req, body, closing, isKeepAlive, up>>
              ELSE LET r == [rr.req EXCEPT !.scheme = "https", !.remote = addr]
                       fw == forwardBegin(r)
                   IN /\ nread' = nread + 1
                      /\ req' = fw.req
                      /\ body' = rr.body
                      /\ closing' = Closing(r.major, r.minor, r.fields)
                      /\ isKeepAlive' = fw.isKeepAlive
                      /\ up' = Append(up, fw.req)
                      /\ pc' = "roundtrip"
                      /\ UNCHANGED result
    /\ UNCHANGED <<authority, loop, resp, ret, addr, cert, peek, out, dec, unitVars>>

\* A return of Proxy.forward without the deferred Close of the request body.
forwardDeferred(br) == br

\* The deferred call of Proxy.forward: the request body, when there is one,
\* is closed.
forwardDeferredClose(br) == IF br.open THEN bodyReaderClose(br) ELSE br

\* RoundTrip returns to Proxy.forward, whose deferred Close of the request
\* body runs as it returns to serveHTTPS; the loop turns an error into a 500
\* status response, takes its keep-alive decision and calls writeResponse.
forward_return ==
    /\ loop = "serveHTTPS" /\ pc = "roundtrip"
    /\ \E o \in RoundTripOutcomes :
        LET fw == forwardEnd(isKeepAlive, o)
            br == forwardDeferredClose(body)
            rsp == IF fw.err
                   THEN statusResponse(500, "Round-trip to upstream failed: %s.")
                   ELSE fw.resp
        IN /\ body' = br
           /\ Decide(nread, closing, br, rsp, o)
    /\ UNCHANGED <<authority, loop, nread, reads, req, isKeepAlive, addr, cert, peek, out,
                   up, result, unitVars>>

\* ------------------------------------------------- the round-trip callable
\* The callable reads the request body.
RoundTrip_read ==
    /\ pc = "roundtrip" /\ body.open
    /\ \E u \in UnderlyingReads(body.left) :
        body' = bodyReaderRead(body, u).br
    /\ UNCHANGED <<authority, loop, pc, nread, reads, req, closing, isKeepAlive, resp, ret,
                   addr, cert, peek, out, up, dec, result, unitVars>>

\* The callable closes the request body.
RoundTrip_close ==
    /\ pc = "roundtrip" /\ body.open
    /\ body' = bodyReaderClose(body)
    /\ UNCHANGED <<authority, loop, pc, nread, reads, req, closing, isKeepAlive, resp, ret,
                   addr, cert, peek, out, up, dec, result, unitVars>>


\* ----------------------------------------------------------- writeResponse
\* A writeResponse that never writes a body.
writeResponseStepNoBody(stage, size) ==
    CASE stage = "writeHeader" -> "flushHeader"
      [] stage = "flushHeader" -> "return"
      [] stage = "writeBody" -> "flushBody"
      [] stage = "flushBody" -> "return"

\* The order of writeResponse's steps: header, flush and, with a body size
\* other than 0, body and flush.
writeResponseStep(stage, size) ==
    CASE stage = "writeHeader" -> "flushHeader"
      [] stage = "flushHeader" -> IF size # 0 THEN "writeBody" ELSE "return"
      [] stage = "writeBody" -> "flushBody"
      [] stage = "flushBody" -> "return"

\* A loop that reads on whatever the closing flag says.
afterWriteAlways(direct, cl) == IF direct THEN "done" ELSE "read"

\* What follows writeResponse's nil: the caller returns it, or the loop
\* stops when closing and reads the next request otherwise.
afterWrite(direct, cl) == IF direct \/ cl THEN "done" ELSE "read"

\* writeResponse's step at position pc is done; it went well or failed.
WriteStepDone(ok, size) ==
    IF ~ok THEN /\ Finish("err")
                /\ UNCHANGED <<req, body, resp, closing, isKeepAlive>>
    ELSE IF writeResponseStep(pc, size) # "return"
    THEN /\ pc' = writeResponseStep(pc, size)
         /\ UNCHANGED <<req, body, resp, closing, isKeepAlive, result>>
    ELSE IF afterWrite(ret, closing) = "done"
    THEN /\ Finish("nil")
         /\ UNCHANGED <<req, body, resp, closing, isKeepAlive>>
    ELSE BackToRead

\* writeResponse works out the body size and writes the header.
writeResponse_header ==
    /\ pc = "writeHeader"
    /\ LET sz == ResponseBodySize(resp, req.method)
       IN IF sz.err
          THEN /\ Finish("err")
               /\ UNCHANGED <<req, body, resp, closing, isKeepAlive, out>>
          ELSE \E ok \in BOOLEAN :
                /\ WriteStepDone(ok, sz.size)
                /\ out' = IF ok THEN Append(out, Event("header", resp)) ELSE out
    /\ UNCHANGED <<authority, loop, nread, reads, ret, addr, cert, peek, up, dec, unitVars>>

\* writeResponse flushes the header.
writeResponse_flush ==
    /\ pc = "flushHeader"
    /\ \E ok \in BOOLEAN :
        /\ WriteStepDone(ok, ResponseBodySize(resp, req.method).size)
        /\ out' = IF ok THEN Append(out, Event("flush", NoResp)) ELSE out
    /\ UNCHANGED <<authority, loop, nread, reads, ret, addr, cert, peek, up, dec, unitVars>>

\* writeResponse writes the body.
writeResponse_body ==
    /\ pc = "writeBody"
    /\ \E ok \in BOOLEAN :
        /\ WriteStepDone(ok, ResponseBodySize(resp, req.method).size)
        /\ out' = IF ok THEN Append(out, Event("body", NoResp)) ELSE out
    /\ UNCHANGED <<authority, loop, nread, reads, ret, addr, cert, peek, up, dec, unitVars>>

\* writeResponse flushes the body.
writeResponse_flushBody ==
    /\ pc = "flushBody"
    /\ \E ok \in BOOLEAN :
        /\ WriteStepDone(ok, ResponseBodySize(resp, req.method).size)
        /\ out' = IF ok THEN Append(out, Event("flushBody", NoResp)) ELSE out
    /\ UNCHANGED <<authority, loop, nread, reads, ret, addr, cert, peek, up, dec, unitVars>>

\* ----------------------------------------------------------- Proxy.connect
\* A check that lets any port through.
connectTargetAnyPort(uri) ==
    LET hp == SplitHostPort(uri)
    IN IF hp.err THEN [ok |-> FALSE, host |-> <<>>]
       ELSE [ok |-> TRUE, host |-> hp.host]

\* The tunnel address is valid when it splits into host and port 443.
connectTarget(uri) ==
    LET hp == SplitHostPort(uri)
    IN IF hp.err \/ hp.port # <<"443">> THEN [ok |-> FALSE, host |-> <<>>]
       ELSE [ok |-> TRUE, host |-> hp.host]

\* connect checks the authority and the tunnel address.
connect_validate ==
    /\ loop = "connect" /\ pc = "connect"
    /\ IF authority \in {"nil", "empty"}
       THEN ReturnStatus(statusResponse(500,
                "Can't serve CONNECT requests without Proxy.Authority."))
       ELSE IF ~connectTarget(req.uri).ok
       THEN ReturnStatus(statusResponse(400, "Invalid CONNECT address: %s."))
       ELSE /\ pc' = "forge"
            /\ UNCHANGED <<resp, ret>>
    /\ UNCHANGED <<authority, loop, nread, reads, req, body, closing, isKeepAlive, addr,
                   cert, peek, out, up, dec, result, unitVars>>

\* connect forges the certificate for the host.
connect_forge ==
    /\ loop = "connect" /\ pc = "forge"
    /\ LET f == forge(connectTarget(req.uri).host)
       IN IF f.err
          THEN /\ ReturnStatus(statusResponse(500,
                    "Error when signing SSL certificate: %s."))
               /\ UNCHANGED cert
          ELSE /\ cert' = f.cert
               /\ pc' = "peek"
               /\ UNCHANGED <<resp, ret>>
    /\ UNCHANGED <<authority, loop, nread, reads, req, body, closing, isKeepAlive, addr,
                   peek, out, up, dec, result, unitVars>>

\* connect grabs the buffered bytes.
connect_peek ==
    /\ loop = "connect" /\ pc = "peek"
    /\ \E p \in PeekOutcomes :
        IF p = "err"
        THEN /\ ReturnStatus(statusResponse(500, "Internal error: %s."))
             /\ UNCHANGED peek
        ELSE /\ peek' = p
             /\ pc' = "write200"
             /\ UNCHANGED <<resp, ret>>
    /\ UNCHANGED <<authority, loop, nread, reads, req, body, closing, isKeepAlive, addr,
                   cert, out, up, dec, result, unitVars>>

\* connect writes the tunnel-ready line; a failed write may have written a
\* part of it.
connect_write200 ==
    /\ loop = "connect" /\ pc = "write200"
    /\ \E w \in {"ok", "failed", "partial"} :
        /\ out' = IF w = "failed" THEN out ELSE Append(out, Event("line200", NoResp))
        /\ IF w = "ok"
           THEN pc' = "flush200" /\ UNCHANGED result
           ELSE Finish("err")
    /\ UNCHANGED <<authority, loop, nread, reads, req, body, closing, isKeepAlive, resp, ret,
                   addr, cert, peek, up, dec, unitVars>>

\* connect flushes the tunnel-ready line.
connect_flush200 ==
    /\ loop = "connect" /\ pc = "flush200"
    /\ \E ok \in BOOLEAN :
        IF ok
        THEN /\ out' = Append(out, Event("flush200", NoResp))
             /\ pc' = "handshake"
             /\ UNCHANGED result
        ELSE /\ Finish("err")
             /\ UNCHANGED out
    /\ UNCHANGED <<authority, loop, nread, reads, req, body, closing, isKeepAlive, resp, ret,
                   addr, cert, peek, up, dec, unitVars>>

\* A handshake step that answers a failed handshake with a status page.
connect_handshakeStatus ==
    /\ loop = "connect" /\ pc = "handshake"
    /\ out' = Append(out, Event("handshake", NoResp))
    /\ \E ok \in BOOLEAN :
        IF ok
        THEN /\ loop' = "serveHTTPS"
             /\ addr' = req.uri
             /\ peek' = "empty"
             /\ ret' = ret
             /\ BackToRead
        ELSE /\ ReturnStatus(statusResponse(500, "Internal error: %s."))
             /\ UNCHANGED <<loop, addr, peek, req, body, closing, isKeepAlive, result>>
    /\ UNCHANGED <<authority, nread, reads, cert, up, dec, unitVars>>

\* connect carries out the TLS handshake and, when it succeeds, runs
\* serveHTTPS over the TLS connection. The handshake reads the buffered
\* bytes first: after it the prefix of the prefixed connection is drained.
connect_handshake ==
    /\ loop = "connect" /\ pc = "handshake"
    /\ out' = Append(out, Event("handshake", NoResp))
    /\ \E ok \in BOOLEAN :
        IF ok
        THEN /\ loop' = "serveHTTPS"
             /\ addr' = req.uri
             /\ peek' = "empty"
             /\ BackToRead
        ELSE /\ Finish("err")
             /\ UNCHANGED <<loop, addr, peek, req, body, resp, closing, isKeepAlive>>
    /\ UNCHANGED <<authority, nread, reads, ret, cert, up, dec, unitVars>>

\* ------------------------------------------------------------ the program
Next ==
    \/ serveHTTP_read
    \/ proxy_return
    \/ serveHTTPS_read
    \/ forward_return
    \/ RoundTrip_read
    \/ RoundTrip_close
    \/ writeResponse_header
    \/ writeResponse_flush
    \/ writeResponse_body
    \/ writeResponse_flushBody
    \/ connect_validate
    \/ connect_forge
    \/ connect_peek
    \/ connect_write200
    \/ connect_flush200
    \/ connect_handshake

Spec == Init /\ [][Next]_vars


\* --------------------------------------------- the scrubber run on its own
\* The fields the scrubbed headers are made of.
ScrubFields == {
    Field("Host", <<"x.example">>),
    Field("Connection", <<"X-Custom", ",", " ", "close">>),
    Field("connection", <<"keep-alive">>),
    Field("CONNECTION", <<"Content-Length", ",", "Host">>),
    Field("X-CUSTOM", <<"v">>),
    Field("Close", <<"v">>),
    Field("Content-Length", <<"5">>),
    Field("content-length", <<"7">>),
    Field("Transfer-Encoding", <<"chunked">>),
    Field("Keep-Alive", <<"timeout=5">>) }

RECURSIVE FieldLists(_)
\* The field lists of at most n fields.
FieldLists(n) ==
    IF n = 0 THEN { <<>> }
    ELSE FieldLists(n - 1)
         \cup { Append(fs, f) : fs \in { l \in FieldLists(n - 1) : Len(l) = n - 1 },
                                f \in ScrubFields }

ScrubSizes == {Chunked, 0, 12}

\* No connection is served: unit is the name of the unit run on its own.
ConnIdle(unit) ==
    /\ loop = unit
    /\ pc = "done"
    /\ nread = 0
    /\ reads = <<>>
    /\ req = NoReq
    /\ closing = FALSE
    /\ isKeepAlive = FALSE
    /\ resp = NoResp
    /\ ret = FALSE
    /\ addr = <<>>
    /\ cert = NoCert
    /\ peek = "none"
    /\ out = <<>>
    /\ up = <<>>
    /\ dec = <<>>
    /\ result = "running"

InitScrub ==
    /\ scrub \in { [fields |-> fs, size |-> s, runs |-> <<>>] :
                    fs \in FieldLists(MaxFields), s \in ScrubSizes }
    /\ ConnIdle("scrub")
    /\ authority = "nil"
    /\ body = NoBody
    /\ pfx = PfxIdle
    /\ calls = <<>>
    /\ forged = <<>>

\* scrubHeaderFields is applied to the header, then to its own result.
scrub_apply ==
    /\ Len(scrub.runs) < 2
    /\ LET cur == IF scrub.runs = <<>> THEN scrub.fields ELSE scrub.runs[Len(scrub.runs)]
       IN scrub' = [scrub EXCEPT !.runs = Append(@, scrubHeaderFields(cur, scrub.size))]
    /\ UNCHANGED <<connVars, pfx, calls, forged>>

NextScrub == scrub_apply

SpecScrub == InitScrub /\ [][NextScrub]_vars

\* ------------------------------------------------------------ vocabulary
\* The events of the running loop: those of a request it read.
LoopEvents == SelectSeq(out, LAMBDA e : e.k >= 1)

EventsOf(k) == SelectSeq(out, LAMBDA e : e.k = k)

KindsOf(k) == LET es == EventsOf(k) IN [i \in DOMAIN es |-> es[i].ev]

FullKinds == <<"header", "flush", "body", "flushBody">>

\* The response to request k is completely written: header and flush and,
\* when its body size is not 0, body and flush.
CompleteK(k) ==
    LET es == EventsOf(k)
    IN /\ es # <<>>
       /\ es[1].ev = "header"
       /\ [i \in DOMAIN es |-> es[i].ev] =
             IF ResponseBodySize(es[1].resp, es[1].method).size # 0
             THEN FullKinds ELSE SubSeq(FullKinds, 1, 2)

\* The values of the fields of that name in a written header.
ValuesOf(fs, name) ==
    LET named == SelectSeq(fs, LAMBDA f : FieldIs(f, name))
    IN [i \in DOMAIN named |-> named[i].value]

\* The loop went on after request k: it started another read or is about to.
StaysOpen(k) == Len(reads) > k \/ (nread = k /\ pc = "read")

Headers == SelectSeq(out, LAMBDA e : e.ev = "header")

\* ------------------------------------------------------------------- C1
\* C1: on one connection at most one request is in flight: when the loop is
\* about to read, every request it has read has its response completely
\* written and flushed (header, flush, and body, flush when there is a body);
\* at any time all requests but the last read one have; and what is written
\* goes request by request, in the order the requests were read.
C1_OneRequestInFlight ==
    LET le == LoopEvents
    IN /\ \A i \in 1..(Len(le) - 1) : le[i].k <= le[i + 1].k
       /\ \A i \in DOMAIN le : le[i].k <= nread
       /\ \A k \in 1..nread :
             LET ks == KindsOf(k)
             IN /\ ks = SubSeq(FullKinds, 1, Len(ks))
                /\ (k < nread \/ pc = "read") => CompleteK(k)

\* Two requests were answered, one response with a body, and the loop is
\* about to read again.
C1_Witness ==
    /\ pc = "read" /\ nread = 2
    /\ \E i \in DOMAIN out : out[i].ev = "flushBody" /\ out[i].k = 1
    /\ CompleteK(2)


\* ------------------------------------------------------------------- C2
\* C2 as stated: a request answered with a completely written response
\* leaves the connection open if and only if the client did not ask to close
\* and the request's body reader reports io.EOF as its last error.
C2_AsStated ==
    \A i \in DOMAIN dec :
        CompleteK(dec[i].k) =>
            (StaysOpen(dec[i].k) <=>
                (~dec[i].clientClosing /\ dec[i].hasBody /\ dec[i].lastError = "EOF"))

\* C2, amended: a request answered with a completely written response leaves
\* the connection open if and only if the client did not ask to close and
\* the request either has no body reader (no body) or its body reader
\* reports io.EOF as its last error at the decision.
C2_KeepAliveIff ==
    \A i \in DOMAIN dec :
        CompleteK(dec[i].k) =>
            (StaysOpen(dec[i].k) <=>
                (~dec[i].clientClosing
                 /\ (~dec[i].hasBody \/ dec[i].lastError = "EOF")))

\* A request whose body was read to EOF was answered completely and the loop
\* is about to read again.
C2_Witness ==
    /\ pc = "read" /\ nread = 1 /\ CompleteK(1)
    /\ dec[1].hasBody /\ dec[1].lastError = "EOF"

\* ------------------------------------------------------------------- C3
\* C3: when a request has a body whose wrapped stream has not returned EOF
\* by the keep-alive decision (left partly unread, or ended by another
\* error), the response is sent with Connection: close and the loop reads no
\* further request.
C3_UnreadBodyCloses ==
    \A i \in DOMAIN dec :
        (dec[i].hasBody /\ ~dec[i].eof) =>
            /\ dec[i].closing
            /\ ~StaysOpen(dec[i].k)
            /\ \A j \in DOMAIN out :
                  (out[j].ev = "header" /\ out[j].k = dec[i].k) =>
                      ValuesOf(out[j].resp.fields, "Connection") = << <<"close">> >>

\* A keep-alive client's request whose body was left partly unread was
\* answered completely and the loop has stopped.
C3_Witness ==
    /\ pc = "done" /\ result = "nil" /\ nread = 1 /\ CompleteK(1)
    /\ dec[1].hasBody /\ ~dec[1].clientClosing /\ dec[1].left > 0 /\ dec[1].e = "nil"

\* ------------------------------------------------------------------- C4
\* Request k of the plain-HTTP loop is a body-less HTTP/1.1 request with an
\* absolute URI and no Connection: close.
GentleRequest(in) ==
    /\ in.err = "nil"
    /\ in.req.method # "CONNECT"
    /\ in.req.major = 1 /\ in.req.minor = 1
    /\ ~ParseRequestURI(in.req.uri).err /\ IsAbs(ParseRequestURI(in.req.uri))
    /\ ~HasToken(FieldsSplit(in.req.fields, "Connection", ","), "close")
    /\ ~RequestBodySize(in.req).err /\ RequestBodySize(in.req).size = 0

\* RoundTrip succeeded with an empty-body 200 response.
Empty200(o, method) ==
    /\ ~o.err /\ o.resp.status = 200
    /\ ~ResponseBodySize(o.resp, method).err
    /\ ResponseBodySize(o.resp, method).size = 0

Requested == SelectSeq(reads, LAMBDA in : in.err = "nil")

\* So far the client sent only such requests, RoundTrip answered each with
\* an empty 200 and no read or write on the connection failed.
GentleRun ==
    /\ loop = "serveHTTP"
    /\ \A i \in DOMAIN reads : GentleRequest(reads[i]) \/ reads[i].err = "EOF"
    /\ LET rs == Requested
       IN \A i \in DOMAIN dec : Empty200(dec[i].rt, rs[i].req.method)
    /\ result # "err"

\* C4: k consecutive body-less HTTP/1.1 requests with an absolute URI and no
\* Connection: close, each answered by RoundTrip with an empty 200: the
\* responses are written in order, each a 200 with Connection: keep-alive
\* and Content-Length: 0, the connection stays open after each, and Serve
\* ends only on the client's EOF, returning nil, with k responses written.
C4_KeepAliveRun ==
    GentleRun =>
        LET hs == Headers
        IN /\ \A i \in DOMAIN dec : ~dec[i].closing
           /\ \A i \in DOMAIN hs :
                 /\ hs[i].k = i
                 /\ hs[i].resp.status = 200
                 /\ ValuesOf(hs[i].resp.fields, "Connection") = << <<"keep-alive">> >>
                 /\ ValuesOf(hs[i].resp.fields, "Content-Length") = << <<"0">> >>
           /\ pc = "done" =>
                 /\ result = "nil"
                 /\ reads[Len(reads)].err = "EOF"
                 /\ Len(hs) = nread
                 /\ \A k \in 1..nread : CompleteK(k)

\* Two such requests were answered and Serve returned on the client's EOF.
C4_Witness ==
    /\ GentleRun /\ pc = "done" /\ nread = 2 /\ Len(dec) = 2
    /\ CompleteK(1) /\ CompleteK(2)

\* ------------------------------------------------------------------- C5
\* C5: a status page the proxy generated in the dispatch step (400 for a bad
\* request URI, 500 for a failed round trip) is written with Connection:
\* close and the loop stops after it.
C5_StatusPagesClose ==
    \A i \in DOMAIN dec :
        dec[i].origin = "status" =>
            /\ dec[i].closing
            /\ ~StaysOpen(dec[i].k)
            /\ \A j \in DOMAIN out :
                  (out[j].ev = "header" /\ out[j].k = dec[i].k) =>
                      ValuesOf(out[j].resp.fields, "Connection") = << <<"close">> >>

\* ------------------------------------------------------------------- C6
\* C6: a read that fails with a malformed header or an unsupported version
\* is answered with a written 404 or 505 status response and ends the
\* connection without an error from the parse and without a fault.
C6_ParseErrorsAnswered ==
    (reads # <<>> /\ reads[Len(reads)].err \in {"ErrRequestHeader", "ErrRequestVersion"})
        => LET hs == Headers
           IN /\ result # "panic"
              /\ pc # "read"
              /\ resp.status =
                    (IF reads[Len(reads)].err = "ErrRequestHeader" THEN 404 ELSE 505)
              /\ (pc = "done" /\ result = "nil") =>
                    (hs # <<>> /\ hs[Len(hs)].resp = resp)

\* ------------------------------------------------------------------- C7
\* C7: Serve never finishes a connection whose request was CONNECT without
\* having written the tunnel-ready 200 line or an error status response to
\* the plaintext side.
C7_ConnectEntersTunnel ==
    (loop = "serveHTTP" /\ pc = "done" /\ req.method = "CONNECT") =>
        \E i \in DOMAIN out :
            /\ out[i].side = "plain"
            /\ \/ out[i].ev = "line200"
               \/ out[i].ev = "header" /\ out[i].resp.status \in {400, 500}


\* ------------------------------------------------------------------- C8
\* The request URI connect was called with.
ConnectURI == IF loop = "connect" THEN req.uri ELSE addr

Configured == authority \notin {"nil", "empty"}

\* The request URI splits into a host and the port "443".
Target443 ==
    /\ ~SplitHostPort(ConnectURI).err
    /\ SplitHostPort(ConnectURI).port = <<"443">>

TunnelStarted == \E i \in DOMAIN out : out[i].ev \in {"line200", "flush200", "handshake"}

\* C8: connect forges a certificate, writes the 200 line or attempts the
\* handshake only with an authority configured and a request URI that splits
\* into host and port "443"; without an authority it answers 500, with
\* another or an unparseable target 400, and then returns with no
\* certificate forged, no 200 line written and no handshake attempted.
C8_ConnectOnly443 ==
    loop \in {"connect", "serveHTTPS"} =>
        /\ (TunnelStarted \/ cert # NoCert \/ pc \in {"forge", "peek", "write200"})
              => (Configured /\ Target443)
        /\ (~Configured /\ pc # "connect") =>
              /\ resp.status = 500 /\ ret
              /\ \A i \in DOMAIN out : out[i].ev \in {"header", "flush", "body", "flushBody"}
              /\ result = "nil" => CompleteK(0)
        /\ (Configured /\ ~Target443 /\ pc # "connect") =>
              /\ resp.status = 400 /\ ret
              /\ \A i \in DOMAIN out : out[i].ev \in {"header", "flush", "body", "flushBody"}
              /\ result = "nil" => CompleteK(0)

\* With an authority, a CONNECT to another port was answered with a written
\* 400 status response and connect returned.
C8_Witness ==
    /\ loop = "connect" /\ pc = "done" /\ result = "nil"
    /\ authority = "valid"
    /\ ~SplitHostPort(req.uri).err /\ SplitHostPort(req.uri).port = <<"8080">>
    /\ CompleteK(0) /\ out[1].resp.status = 400

\* ------------------------------------------------------------------- C9
\* C9: in connect nothing is written before the certificate is forged and
\* the buffered bytes are collected; the handshake starts only after the 200
\* line was written and flushed; and once any of the 200 line is written, no
\* status response is written to the plaintext side: connect returns the
\* error of every later failure.
C9_TunnelOrder ==
    loop \in {"connect", "serveHTTPS"} =>
        /\ pc \in {"forge", "peek", "write200"} => out = <<>>
        /\ \A i \in DOMAIN out :
              out[i].ev = "line200" => (i = 1 /\ cert # NoCert /\ peek # "none")
        /\ \A i \in DOMAIN out :
              out[i].ev = "handshake" =>
                  (i = 3 /\ out[1].ev = "line200" /\ out[2].ev = "flush200")
        /\ \A i \in DOMAIN out :
              out[i].ev = "line200" =>
                  \A j \in (i + 1)..Len(out) :
                      ~(out[j].ev = "header" /\ out[j].side = "plain")
        /\ (TunnelStarted /\ loop = "connect" /\ pc # "done") =>
              (pc \in {"flush200", "handshake"} /\ resp = NoResp)
        /\ (TunnelStarted /\ loop = "connect" /\ pc = "done") => result = "err"

\* The 200 line was written and flushed, the handshake failed and connect
\* returned its error.
C9_Witness ==
    /\ loop = "connect" /\ pc = "done" /\ result = "err"
    /\ Len(out) = 3 /\ out[3].ev = "handshake"

\* ------------------------------------------------------------------ C10
\* C10: header scrubbing is idempotent: scrubHeaderFields applied to its
\* own result, with the same size, gives the same ordered field list.
C10_ScrubIdempotent ==
    Len(scrub.runs) = 2 => scrub.runs[2] = scrub.runs[1]

\* The scrubber ran twice on a header with a Content-Length and a Connection
\* field naming another field of the header, and removed fields.
C10_Witness ==
    /\ Len(scrub.runs) = 2
    /\ FieldsHas(scrub.fields, "Content-Length")
    /\ \E i, j \in DOMAIN scrub.fields :
          /\ FieldIs(scrub.fields[i], "Connection")
          /\ \E k \in DOMAIN FieldsSplit(scrub.fields, "Connection", ",") :
                FieldIsToken(scrub.fields[j],
                             FieldsSplit(scrub.fields, "Connection", ",")[k])
    /\ Len(scrub.runs[1]) = 1

\* ------------------------------------- a prefixed connection on its own
MaxPrefix == 2
MaxConn == 2
MaxBuf == 3

Bytes == {"a", "b"}

RECURSIVE ByteSeqs(_)
\* The byte sequences of at most n bytes.
ByteSeqs(n) ==
    IF n = 0 THEN { <<>> }
    ELSE ByteSeqs(n - 1)
         \cup { Append(s, b) : s \in { l \in ByteSeqs(n - 1) : Len(l) = n - 1 },
                               b \in Bytes }

Min(a, b) == IF a < b THEN a ELSE b

\* What one Read of the wrapped connection may return into a buffer of
\* buflen bytes with the bytes of conn still to come.
ConnReads(conn, buflen) ==
    IF buflen = 0 THEN { [n |-> 0, err |-> "nil"] }
    ELSE IF conn = <<>> THEN { [n |-> 0, err |-> "EOF"] }
    ELSE { [n |-> k, err |-> "nil"] : k \in 1..Min(buflen, Len(conn)) }

\* A Read that forgets what is left of the prefix.
prefixedReadDrop(c, buflen, u) ==
    IF Len(c.prefix) > 0
    THEN LET n == Min(buflen, Len(c.prefix))
         IN [c |-> [c EXCEPT !.prefix = <<>>],
             data |-> SubSeq(c.prefix, 1, n), err |-> "nil", called |-> FALSE]
    ELSE [c |-> [c EXCEPT !.conn = SubSeq(@, u.n + 1, Len(@))],
          data |-> SubSeq(c.conn, 1, u.n), err |-> u.err, called |-> TRUE]

\* prefixed.Read into a buffer of buflen bytes, u being what the wrapped
\* connection returns if it is read.
prefixedRead(c, buflen, u) ==
    IF Len(c.prefix) > 0
    THEN LET n == Min(buflen, Len(c.prefix))
         IN [c |-> [c EXCEPT !.prefix = IF n = Len(c.prefix) THEN <<>>
                                         ELSE SubSeq(c.prefix, n + 1, Len(c.prefix))],
             data |-> SubSeq(c.prefix, 1, n), err |-> "nil", called |-> FALSE]
    ELSE [c |-> [c EXCEPT !.conn = SubSeq(@, u.n + 1, Len(@))],
          data |-> SubSeq(c.conn, 1, u.n), err |-> u.err, called |-> TRUE]

\* connect wraps the connection when it has peeked bytes: p are the bytes
\* peeked, q those the connection is still to deliver.
InitPrefixed ==
    /\ pfx \in { [p |-> p, q |-> q, prefix |-> p, conn |-> q, got |-> <<>>,
                   early |-> FALSE, short |-> FALSE] :
                  p \in ByteSeqs(MaxPrefix) \ { <<>> }, q \in ByteSeqs(MaxConn) }
    /\ ConnIdle("prefixed")
    /\ authority = "nil"
    /\ body = NoBody
    /\ scrub = ScrubIdle
    /\ calls = <<>>
    /\ forged = <<>>

\* The TLS server reads the connection into a buffer of some size.
prefixed_Read ==
    /\ loop = "prefixed"
    /\ \E buflen \in 0..MaxBuf :
         \E u \in ConnReads(pfx.conn, buflen) :
            LET r == prefixedRead([prefix |-> pfx.prefix, conn |-> pfx.conn], buflen, u)
            IN pfx' = [pfx EXCEPT !.prefix = r.c.prefix,
                                  !.conn = r.c.conn,
                                  !.got = @ \o r.data,
                                  !.early = @ \/ (r.called /\ pfx.prefix # <<>>),
                                  !.short = @ \/ buflen < Len(pfx.prefix)]
    /\ UNCHANGED <<connVars, scrub, calls, forged>>

NextPrefixed == prefixed_Read

SpecPrefixed == InitPrefixed /\ [][NextPrefixed]_vars

\* ------------------------------------------------ a bodyReader on its own
MaxCalls == 4

\* The wrapped stream was not read.
NoRead == [n |-> 0, err |-> "none"]

\* The record of a call: the stored error before and after it, what the
\* wrapped stream returned when it was read, and what the call returned.
Call(op, before, after, u, n, err, called) ==
    [op |-> op, before |-> before, after |-> after, u |-> u, n |-> n, err |-> err,
     called |-> called]

\* readRequest wraps a body of a size other than 0; a chunked body may turn
\* out to hold no byte.
InitBody ==
    /\ body \in { NewBody(s) : s \in 0..MaxBody }
    /\ calls = <<>>
    /\ ConnIdle("bodyReader")
    /\ authority = "nil"
    /\ scrub = ScrubIdle
    /\ pfx = PfxIdle
    /\ forged = <<>>

bodyReader_Read ==
    /\ loop = "bodyReader" /\ Len(calls) < MaxCalls
    /\ \E u \in UnderlyingReads(body.left) :
         LET r == bodyReaderRead(body, u)
         IN /\ body' = r.br
            /\ calls' = Append(calls, Call("Read", body.e, r.br.e,
                                           IF r.called THEN u ELSE NoRead,
                                           r.n, r.err, r.called))
    /\ UNCHANGED <<authority, loop, pc, nread, reads, req, closing, isKeepAlive, resp, ret,
                   addr, cert, peek, out, up, dec, result, scrub, pfx, forged>>

bodyReader_Close ==
    /\ loop = "bodyReader" /\ Len(calls) < MaxCalls
    /\ body' = bodyReaderClose(body)
    /\ calls' = Append(calls, Call("Close", body.e, body'.e, NoRead, 0, "nil", FALSE))
    /\ UNCHANGED <<authority, loop, pc, nread, reads, req, closing, isKeepAlive, resp, ret,
                   addr, cert, peek, out, up, dec, result, scrub, pfx, forged>>

bodyReader_LastError ==
    /\ loop = "bodyReader" /\ Len(calls) < MaxCalls
    /\ calls' = Append(calls, Call("LastError", body.e, body.e, NoRead, 0,
                                   LastError(body), FALSE))
    /\ UNCHANGED <<authority, loop, pc, nread, reads, req, body, closing, isKeepAlive, resp,
                   ret, addr, cert, peek, out, up, dec, result, scrub, pfx, forged>>

NextBody == bodyReader_Read \/ bodyReader_Close \/ bodyReader_LastError

SpecBody == InitBody /\ [][NextBody]_vars

\* --------------------------------------------------------- forge on its own
MaxForge == 2

\* &inf{seed}: the state is the seed, hashed k times so far.
NewInf(seed) == [seed |-> seed, k |-> 0]

\* inf.Read of buflen bytes: the state is hashed once for every 32 bytes or
\* part of them, and the digests are copied out. The receiver is a copy of
\* the struct, but each digest is written into the array the state slice
\* shares with the caller's struct, so the next Read goes on from it.
infRead(i, buflen) ==
    [i |-> [i EXCEPT !.k = @ + ((buflen + 31) \div 32)],
     out |-> [seed |-> i.seed, from |-> i.k + 1, len |-> buflen]]

\* rsa.GenerateKey(rng, 2048): the key is made of what it reads from rng for
\* its two primes of 1024 bits. crypto/rsa gives no promise that the key is
\* a function of the bytes of rng: since Go 1.11 it first reads, or does
\* not read, one byte, at random (maybe).
rsaGenerateKey(rng, maybe) ==
    LET r0 == IF maybe THEN infRead(rng, 1).i ELSE rng
        r1 == infRead(r0, 1024 \div 8)
        r2 == infRead(r1.i, 1024 \div 8)
    IN [rng |-> r2.i, key |-> [p |-> r1.out, q |-> r2.out]]

\* x509.CreateCertificate(rng, template, x509ca, &key.PublicKey,
\* p.Authority.PrivateKey): the template with the public key, signed by the
\* authority; what the signing reads from rng blinds the computation and is
\* not part of the signature.
CreateCertificate(rng, template, key) ==
    [rng |-> infRead(rng, 2048 \div 8).i,
     der |-> [serial |-> template.serial, subject |-> "authority",
              dns |-> template.dns, ip |-> template.ip, pub |-> key,
              signedBy |-> "authority"]]

\* Proxy.forge with its key and its leaf: the seed is the hash of the host,
\* the rng is made anew from it, the key is drawn before the leaf is signed.
forgeKeyed(host, maybe) ==
    LET f == forge(host)
    IN IF f.err THEN [host |-> host, err |-> TRUE, serial |-> <<>>, key |-> <<>>,
                      der |-> <<>>]
       ELSE LET rng == NewInf(<<"sha256">> \o host)
                k == rsaGenerateKey(rng, maybe)
                c == CreateCertificate(k.rng, f.cert, k.key)
            IN [host |-> host, err |-> FALSE, serial |-> f.cert.serial,
                key |-> k.key, der |-> c.der]

\* The hosts forge is called for.
ForgeHosts ==
    { <<"example.com">>, <<"x.example">>, <<"a.example">>, <<"::1">>, <<"127.0.0.1">> }

InitForge ==
    /\ authority \in {"valid", "badDER"}
    /\ forged = <<>>
    /\ ConnIdle("forge")
    /\ body = NoBody
    /\ scrub = ScrubIdle
    /\ pfx = PfxIdle
    /\ calls = <<>>

\* forge is called for a host.
forge_call ==
    /\ loop = "forge" /\ Len(forged) < MaxForge
    /\ \E host \in ForgeHosts, maybe \in BOOLEAN :
         forged' = Append(forged, forgeKeyed(host, maybe))
    /\ UNCHANGED <<connVars, scrub, pfx, calls>>

NextForge == forge_call

SpecForge == InitForge /\ [][NextForge]_vars

\* ------------------------------------------------------------------ C11
\* The hop-by-hop names the claim lists, folded to lower case.
HopByHopNames ==
    {"connection", "keep-alive", "public", "proxy-authenticate",
     "proxy-authorization", "te", "trailers", "transfer-encoding", "upgrade",
     "proxy-connection", "content-length"}

\* The field is named in the list or by a token of a Connection field of fs.
Unwanted(f, fs) ==
    \/ Lower(f.name) \in HopByHopNames
    \/ LET toks == FieldsSplit(fs, "Connection", ",")
       IN \E i \in DOMAIN toks : FieldIsToken(f, toks[i])

\* C11 as stated: after scrubHeaderFields(F, s) no field of the result is
\* named in the blacklist or by a token of a Connection field of F.
C11_AsStated ==
    Len(scrub.runs) >= 1 =>
        \A i \in DOMAIN scrub.runs[1] : ~Unwanted(scrub.runs[1][i], scrub.fields)

\* C11, amended: after scrubHeaderFields(F, s) no field of the result other
\* than its last one, the framing field the scrubber itself appends
\* (Content-Length or Transfer-Encoding), is named in the blacklist or by a
\* token of a Connection field of F.
C11_HopByHopRemoved ==
    Len(scrub.runs) >= 1 =>
        LET r == scrub.runs[1]
        IN /\ r # <<>>
           /\ Lower(r[Len(r)].name) \in {"content-length", "transfer-encoding"}
           /\ \A i \in 1..(Len(r) - 1) : ~Unwanted(r[i], scrub.fields)

\* The scrubber ran on a header with a Connection field naming X-Custom and
\* with an X-CUSTOM field, which it removed.
C11_Witness ==
    /\ Len(scrub.runs) >= 1
    /\ \E i \in DOMAIN scrub.fields : scrub.fields[i].name = "X-CUSTOM"
    /\ HasToken(FieldsSplit(scrub.fields, "Connection", ","), "X-Custom")
    /\ Len(scrub.runs[1]) = 1

\* ------------------------------------------------------------------ C12
\* C12: after scrubHeaderFields with s >= 0 the result holds exactly one
\* Content-Length field, with the decimal value s, and no Transfer-Encoding
\* field; with s < 0 exactly one Transfer-Encoding field, with the value
\* chunked, and no Content-Length field.
C12_FramingConsistent ==
    Len(scrub.runs) >= 1 =>
        LET cl == ValuesOf(scrub.runs[1], "Content-Length")
            te == ValuesOf(scrub.runs[1], "Transfer-Encoding")
        IN IF scrub.size >= 0
           THEN /\ Len(cl) = 1 /\ IsNumber(cl[1]) /\ ParseNat(cl[1], 0) = scrub.size
                /\ te = <<>>
           ELSE /\ te = << <<"chunked">> >>
                /\ cl = <<>>

\* The scrubber ran with a size of 12 on a header that held two
\* Content-Length fields.
C12_Witness ==
    /\ Len(scrub.runs) >= 1 /\ scrub.size = 12
    /\ Len(ValuesOf(scrub.fields, "Content-Length")) = 2

\* ------------------------------------------------------------------ C13
\* C13: every request handed to the round-trip callable, by Proxy.proxy and
\* by Proxy.forward, carries a Connection field with the value keep-alive.
C13_UpstreamKeepAlive ==
    \A i \in DOMAIN up :
        LET cs == ValuesOf(up[i].fields, "Connection")
        IN \E j \in DOMAIN cs : cs[j] = <<"keep-alive">>

\* ------------------------------------------------------------------ C14
\* The requests read that were handed to the round-trip callable, in order.
Forwarded ==
    LET ok == SelectSeq(reads, LAMBDA in : readRequest(in).err = "nil")
    IN IF loop = "serveHTTPS" THEN ok
       ELSE SelectSeq(ok, LAMBDA in : in.req.method # "CONNECT"
                                       /\ proxyBegin(in.req).call)

\* A header as the scrubber leaves it, its Connection fields aside: one
\* framing field at the end and before it no field named in the list or by
\* a Connection token of the header it was made from.
Scrubbed(fs, orig) ==
    LET r == SelectSeq(fs, LAMBDA f : ~FieldIs(f, "Connection"))
    IN /\ r # <<>>
       /\ Lower(r[Len(r)].name) \in {"content-length", "transfer-encoding"}
       /\ \A i \in 1..(Len(r) - 1) : ~Unwanted(r[i], orig)

\* The request handed to the callable is scrubbed, with version 1.1.
ScrubbedUp(i) ==
    /\ up[i].major = 1 /\ up[i].minor = 1
    /\ Scrubbed(up[i].fields, Forwarded[i].req.fields)

\* The upstream response written for the decision is scrubbed, with version
\* 1.1.
ScrubbedDown(d) ==
    \A j \in DOMAIN out :
        (out[j].ev = "header" /\ out[j].k = d.k) =>
            /\ out[j].resp.major = 1 /\ out[j].resp.minor = 1
            /\ Scrubbed(out[j].resp.fields, d.rt.resp.fields)

\* The request is dispatched over the tunnel's target as the client sent it.
TunnelDispatch(i) ==
    /\ up[i].scheme = "https"
    /\ up[i].remote = addr
    /\ up[i].uri = Forwarded[i].req.uri

\* C14: on the plain and on the TLS loop every request handed to the
\* round-trip callable and every upstream response written to the client is
\* scrubbed with version 1.1, and on the TLS loop every request is
\* dispatched with scheme https, the CONNECT host:port as remote and the
\* request URI the client sent.
C14_SameLoopOverTLS ==
    /\ Len(Forwarded) = Len(up)
    /\ \A i \in DOMAIN up :
          /\ ScrubbedUp(i)
          /\ loop = "serveHTTPS" => TunnelDispatch(i)
    /\ \A i \in DOMAIN dec : dec[i].origin = "upstream" => ScrubbedDown(dec[i])

\* ------------------------------------------------------------------ C15
\* C15: a response the loop writes carries exactly one Connection field,
\* whatever Connection field the upstream response carried: close when the
\* loop has decided to stop, keep-alive otherwise; and once the response is
\* completely written, the loop goes on to another read exactly when the
\* field says keep-alive.
C15_ConnectionByProxy ==
    \A i \in DOMAIN dec :
        LET d == dec[i]
            hs == SelectSeq(out, LAMBDA e : e.ev = "header" /\ e.k = d.k)
        IN /\ \A j \in DOMAIN hs :
                 /\ ValuesOf(hs[j].resp.fields, "Connection") =
                       << IF d.closing THEN <<"close">> ELSE <<"keep-alive">> >>
                 /\ CompleteK(d.k) =>
                       (StaysOpen(d.k) <=>
                           ValuesOf(hs[j].resp.fields, "Connection") = << <<"keep-alive">> >>)

\* An upstream response that carried Connection: close was written
\* completely with Connection: keep-alive and the loop is about to read
\* again.
C15_Witness ==
    /\ pc = "read" /\ nread = 1 /\ CompleteK(1)
    /\ dec[1].origin = "upstream"
    /\ ValuesOf(dec[1].rt.resp.fields, "Connection") = << <<"close">> >>
    /\ ValuesOf(Headers[1].resp.fields, "Connection") = << <<"keep-alive">> >>

\* ------------------------------------------------------------------ C20
\* The request of the decision had a body that was read to EOF and closed.
ClosedAfterEOF(d) == d.hasBody /\ d.eof /\ d.e = "errReadAfterClose"

\* The decision is to close: Connection: close is written and the loop reads
\* no further request.
EndsSession(d) ==
    /\ d.closing
    /\ ~StaysOpen(d.k)
    /\ CompleteK(d.k) => (pc = "done" /\ result = "nil")
    /\ \A j \in DOMAIN out :
          (out[j].ev = "header" /\ out[j].k = d.k) =>
              ValuesOf(out[j].resp.fields, "Connection") = << <<"close">> >>

\* C20: on the TLS loop every request with a body has, at the keep-alive
\* decision, a body reader that is active or closed after its end, with a
\* nil LastError, and ends the session, also when the body was read to
\* EOF and the client asked for keep-alive; on the plain loop a request whose
\* body the callable read to EOF and closed ends the session too.
C20_BodyEndsSession ==
    \A i \in DOMAIN dec :
        /\ (loop = "serveHTTPS" /\ dec[i].hasBody) =>
              /\ dec[i].e \in {"nil", "errReadAfterClose"}
              /\ dec[i].lastError = "nil"
              /\ EndsSession(dec[i])
        /\ (loop = "serveHTTP" /\ ClosedAfterEOF(dec[i])) =>
              (dec[i].lastError = "nil" /\ EndsSession(dec[i]))

\* On the TLS loop a keep-alive client's request whose body was read to EOF
\* was answered completely with Connection: close and the loop has returned.
C20_Witness ==
    /\ loop = "serveHTTPS" /\ pc = "done" /\ result = "nil" /\ nread = 1
    /\ CompleteK(1)
    /\ ~dec[1].clientClosing /\ ClosedAfterEOF(dec[1])
    /\ dec[1].origin = "upstream"

\* ------------------------------------------------------------------ C17
\* C17: whatever the sizes of the buffers read into, the bytes returned
\* through the prefixed connection, followed by what is left of the prefix
\* and of the wrapped connection, are the prefix followed by the bytes of the
\* connection, and the wrapped connection is never read while prefix bytes
\* are left.
C17_PrefixTransparent ==
    loop = "prefixed" =>
        /\ pfx.got \o pfx.prefix \o pfx.conn = pfx.p \o pfx.q
        /\ ~pfx.early

\* A prefix of two bytes and the bytes of the connection were all returned,
\* one Read at least having had a buffer smaller than what was left of the
\* prefix.
C17_Witness ==
    /\ loop = "prefixed"
    /\ Len(pfx.p) = 2 /\ pfx.q # <<>> /\ pfx.p[1] # pfx.p[2]
    /\ pfx.short
    /\ pfx.got = pfx.p \o pfx.q

\* ------------------------------------------------------------------ C18
\* No Close was called between call i and call j.
NoCloseBetween(i, j) == \A k \in (i + 1)..(j - 1) : calls[k].op # "Close"

\* C18 as stated: a Read whose wrapped read returns data with an error
\* returns the data with a nil error and stores the error; a Read whose
\* wrapped read returns no data and an error stores and returns the error;
\* and every later Read returns 0 bytes and that error without reading the
\* wrapped stream.
C18_AsStated ==
    \A i \in DOMAIN calls :
        (calls[i].op = "Read" /\ calls[i].called /\ calls[i].u.err # "nil") =>
            /\ calls[i].after = calls[i].u.err
            /\ calls[i].n = calls[i].u.n
            /\ calls[i].err = (IF calls[i].u.n > 0 THEN "nil" ELSE calls[i].u.err)
            /\ \A j \in (i + 1)..Len(calls) :
                  calls[j].op = "Read" =>
                      /\ calls[j].n = 0
                      /\ calls[j].err = calls[i].u.err
                      /\ ~calls[j].called

\* C18, amended: as stated, for the later Reads made before any Close of
\* the reader; no later Read at all reads the wrapped stream or returns
\* data.
C18_ErrorDelayed ==
    \A i \in DOMAIN calls :
        (calls[i].op = "Read" /\ calls[i].called /\ calls[i].u.err # "nil") =>
            /\ calls[i].after = calls[i].u.err
            /\ calls[i].n = calls[i].u.n
            /\ calls[i].err = (IF calls[i].u.n > 0 THEN "nil" ELSE calls[i].u.err)
            /\ \A j \in (i + 1)..Len(calls) :
                  calls[j].op = "Read" =>
                      /\ calls[j].n = 0
                      /\ ~calls[j].called
                      /\ NoCloseBetween(i, j) => calls[j].err = calls[i].u.err

\* A Read returned data and delayed a connection error, and the next Read
\* returned the error.
C18_Witness ==
    /\ Len(calls) >= 2
    /\ calls[1].op = "Read" /\ calls[1].u.n > 0 /\ calls[1].u.err = "ErrIO"
    /\ calls[1].err = "nil"
    /\ calls[2].op = "Read" /\ calls[2].err = "ErrIO" /\ ~calls[2].called

\* ------------------------------------------------------------------ C19
\* The state of a bodyReader with the stored error e.
StateOf(e) ==
    IF e = "nil" THEN "active"
    ELSE IF e = "errReadAfterClose" THEN "closed"
    ELSE "terminated"

\* C19: under any sequence of Read, Close and LastError, Close changes
\* nothing in the active state, replaces the stored error by
\* errReadAfterClose in the terminated state and changes nothing in the
\* closed state; Read reaches the wrapped stream in the active state, also
\* after a Close, returns the stored error in the terminated state and
\* (0, errReadAfterClose) in the closed state, which it never leaves;
\* LastError returns nil in the active and the closed state and the stored
\* error in the terminated state, and changes nothing.
C19_ThreeStates ==
    \A i \in DOMAIN calls :
        LET c == calls[i]
            s == StateOf(c.before)
        IN /\ i > 1 => c.before = calls[i - 1].after
           /\ c.op = "Close" =>
                 c.after = (IF s = "active" THEN "nil" ELSE "errReadAfterClose")
           /\ c.op = "Read" =>
                 /\ s = "active" => c.called
                 /\ s # "active" =>
                       (~c.called /\ c.n = 0 /\ c.err = c.before /\ c.after = c.before)
           /\ c.op = "LastError" =>
                 /\ c.after = c.before
                 /\ c.err = (IF s = "terminated" THEN c.before ELSE "nil")

\* Close in the active state, a Read that reached the wrapped stream and
\* ended it, Close again, and a Read that returned errReadAfterClose.
C19_Witness ==
    /\ Len(calls) = 4
    /\ calls[1].op = "Close" /\ calls[1].before = "nil"
    /\ calls[2].op = "Read" /\ calls[2].called /\ calls[2].after = "EOF"
    /\ calls[3].op = "Close" /\ calls[3].after = "errReadAfterClose"
    /\ calls[4].op = "Read" /\ calls[4].err = "errReadAfterClose"

\* ------------------------------------------------------------------ C16
\* C16: two calls of forge for the same host under the same authority return
\* the same serial number, the same leaf and the same private key.
C16_ForgeDeterministic ==
    \A i, j \in DOMAIN forged :
        forged[i].host = forged[j].host =>
            /\ forged[i].serial = forged[j].serial
            /\ forged[i].der = forged[j].der
            /\ forged[i].key = forged[j].key

====
